---- MODULE Spec2Model ----
\* Model of the IP geolocation server (src/main.go): startup update of the two
\* CSV data files, loadCsv, and the GET /getIpInfo handler.
EXTENDS Integers, Sequences, FiniteSets, Bags, TLC

\* ---------------------------------------------------------------- bounds
\* Largest number of records in a local IPv4 data file drawn by Init.
MaxRecords == 2

\* ---------------------------------------------------------------- pointers
\* A Go pointer / optional value: None is nil, Some(x) a pointer to x.
None == <<>>
Some(x) == <<x>>

\* ---------------------------------------------------------------- math/big
\* A *big.Int is a sign and a magnitude; the magnitude is the sequence of its
\* base-256 digits, most significant first, without leading zeros (big.nat is
\* kept normalised the same way).
StripZeros(bs) ==
  LET nz == {i \in DOMAIN bs : bs[i] # 0}
  IN  IF nz = {} THEN <<>>
      ELSE SubSeq(bs, CHOOSE i \in nz : \A j \in nz : i <= j, Len(bs))

\* big.Int.SetBytes: the bytes are a big-endian unsigned integer.
SetBytes(bs) == [neg |-> FALSE, abs |-> StripZeros(bs)]

\* binary.BigEndian.Uint32(b): b[0] is the most significant byte. The uint32 is
\* kept as its four bytes in order of significance (TLC's integers are 32-bit
\* signed, a uint32 does not fit).
BigEndianUint32(b) == <<b[1], b[2], b[3], b[4]>>

\* big.Int.SetUint64(uint64(x)) of a uint32 x.
SetUint64(x) == [neg |-> FALSE, abs |-> StripZeros(x)]

\* nat.mulAddWW: z*m + c on magnitudes, c < 256.
RECURSIVE MulAdd(_, _, _)
MulAdd(z, m, c) ==
  IF z = <<>> THEN (IF c = 0 THEN <<>> ELSE <<c>>)
  ELSE LET t == z[Len(z)] * m + c
       IN  MulAdd(SubSeq(z, 1, Len(z) - 1), m, t \div 256) \o <<t % 256>>

DigitChars == <<"0", "1", "2", "3", "4", "5", "6", "7", "8", "9">>
IsDigit(ch) == \E d \in DOMAIN DigitChars : DigitChars[d] = ch
DigitVal(ch) == (CHOOSE d \in DOMAIN DigitChars : DigitChars[d] = ch) - 1

RECURSIVE ScanDigits(_, _)
ScanDigits(chars, acc) ==
  IF chars = <<>> THEN acc
  ELSE ScanDigits(Tail(chars), MulAdd(acc, 10, DigitVal(Head(chars))))

\* big.Int.SetString(s, 10): an optional sign, then one or more decimal digits
\* and nothing else. None when the text is not such a number.
SetString(s) ==
  LET signed == s # <<>> /\ Head(s) \in {"+", "-"}
      digits == IF signed THEN Tail(s) ELSE s
      mag    == ScanDigits(digits, <<>>)
  IN  IF digits = <<>> \/ \E i \in DOMAIN digits : ~IsDigit(digits[i])
      THEN None
      ELSE Some([neg |-> signed /\ Head(s) = "-" /\ mag # <<>>, abs |-> mag])

\* Comparison of two magnitudes: -1, 0 or 1.
RECURSIVE CmpDigits(_, _)
CmpDigits(x, y) ==
  IF x = <<>> THEN 0
  ELSE IF Head(x) < Head(y) THEN -1
  ELSE IF Head(x) > Head(y) THEN 1
  ELSE CmpDigits(Tail(x), Tail(y))

CmpAbs(x, y) ==
  IF Len(x) < Len(y) THEN -1
  ELSE IF Len(x) > Len(y) THEN 1
  ELSE CmpDigits(x, y)

\* big.Int.Cmp
Cmp(x, y) ==
  IF x.neg # y.neg THEN (IF x.neg THEN -1 ELSE 1)
  ELSE IF x.neg THEN 0 - CmpAbs(x.abs, y.abs)
  ELSE CmpAbs(x.abs, y.abs)

\* big.Int.Sign
Sign(x) == IF x.abs = <<>> THEN 0 ELSE IF x.neg THEN -1 ELSE 1

\* ---------------------------------------------------------------- data files
\* The data files, by local name (var files).
files == <<"geo-whois-asn-country-ipv4-num.csv", "geo-asn-country-ipv6-num.csv">>
FileIds == DOMAIN files

\* A file's content is the sequence of its CSV records, each a sequence of
\* fields, each a sequence of characters. A file on disk:
Absent == [exists |-> FALSE, readable |-> FALSE, data |-> <<>>]
Unreadable == [exists |-> TRUE, readable |-> FALSE, data |-> <<>>]
Stored(data) == [exists |-> TRUE, readable |-> TRUE, data |-> data]

\* ---------------------------------------------------------------- loadCsv
\* The read loop of one source. csv.Reader (FieldsPerRecord = 0) takes the
\* field count n from the first record and returns ErrFieldCount for a record
\* of another length; the loop breaks on any error of Read, io.EOF included.
\* rec[1] and rec[2] are indexed without a length check: a record that is too
\* short panics (index out of range), which ends the process.
RECURSIVE ReadLoop(_, _, _)
ReadLoop(recs, n, acc) ==
  IF recs = <<>> THEN [ranges |-> acc, panicked |-> FALSE]
  ELSE LET rec == Head(recs)
           start == SetString(rec[1])
           end == SetString(rec[2])
       IN  IF Len(rec) # n THEN [ranges |-> acc, panicked |-> FALSE]
           ELSE IF start = None THEN ReadLoop(Tail(recs), n, acc)
           ELSE IF Len(rec) < 2 THEN [ranges |-> acc, panicked |-> TRUE]
           ELSE IF end = None THEN ReadLoop(Tail(recs), n, acc)
           ELSE IF Len(rec) < 3 THEN [ranges |-> acc, panicked |-> TRUE]
           ELSE ReadLoop(Tail(recs), n,
                  Append(acc, [start |-> start[1], end |-> end[1], country |-> rec[3]]))

\* One source: os.Open fails -> continue (no ranges); else the read loop.
ReadSource(file) ==
  IF ~file.exists \/ ~file.readable THEN [ranges |-> <<>>, panicked |-> FALSE]
  ELSE IF file.data = <<>> THEN [ranges |-> <<>>, panicked |-> FALSE]
  ELSE ReadLoop(file.data, Len(file.data[1]), <<>>)

\* The loop over files: the ranges of all sources, appended in file order.
RECURSIVE LoadFrom(_, _, _)
LoadFrom(d, f, acc) ==
  IF f > Len(files) THEN [ranges |-> acc, panicked |-> FALSE]
  ELSE LET r == ReadSource(d[f])
       IN  IF r.panicked THEN [ranges |-> acc \o r.ranges, panicked |-> TRUE]
           ELSE LoadFrom(d, f + 1, acc \o r.ranges)

LoadRanges(d) == LoadFrom(d, 1, <<>>)

\* The less function given to sort.Slice.
Less(a, b) == Cmp(a.start, b.start) < 0

IsSortedBy(s) == \A i, j \in DOMAIN s : i < j => ~Less(s[j], s[i])

\* A sort that also drops a range whose start repeats the one before it.
SortOutcomesDedup(s) ==
  LET all == {[i \in DOMAIN s |-> s[p[i]]] : p \in Permutations(DOMAIN s)}
      Dedup(q) == SelectSeq([i \in DOMAIN q |->
                     IF i > 1 /\ Cmp(q[i].start, q[i-1].start) = 0 THEN None ELSE Some(q[i])],
                     LAMBDA x : x # None)
  IN  {[i \in DOMAIN Dedup(q) |-> Dedup(q)[i][1]] : q \in {r \in all : IsSortedBy(r)}}

\* sort.Slice(arr, less): some permutation of arr that is ordered by less.
\* sort.Slice is not a stable sort (pdqsort; documented "not guaranteed to be
\* stable"), so elements that compare equal may come out in any order.
SortOutcomes(s) ==
  {q \in {[i \in DOMAIN s |-> s[p[i]]] : p \in Permutations(DOMAIN s)} : IsSortedBy(q)}

\* ---------------------------------------------------------------- updateCsvFiles
SpaceChars == {" ", "\t"}

\* strings.TrimSpace
TrimSpace(s) ==
  LET keep == {i \in DOMAIN s : s[i] \notin SpaceChars}
  IN  IF keep = {} THEN <<>>
      ELSE SubSeq(s, CHOOSE i \in keep : \A j \in keep : i <= j,
                     CHOOSE i \in keep : \A j \in keep : j <= i)

LowerOf(ch) ==
  CASE ch = "T" -> "t" [] ch = "R" -> "r" [] ch = "U" -> "u" [] ch = "E" -> "e"
    [] OTHER -> ch

\* strings.ToLower
ToLower(s) == [i \in DOMAIN s |-> LowerOf(s[i])]

\* autoUpdate := strings.ToLower(strings.TrimSpace(os.Getenv("AUTO_UPDATE"))) == "true"
AutoUpdate(env) == ToLower(TrimSpace(env)) = <<"t", "r", "u", "e">>

\* The git blob hash of a content: sha1 of "blob <len>\x00" followed by the
\* data, hex encoded. sha1 is taken to be injective.
BlobSha(data) == <<"sha1", "blob", Len(data), data>>

\* What the network and the file system do during one iteration of the loop:
\* whether the metadata request succeeds (request, status 200 and decoding),
\* whether the download request succeeds, whether os.Create succeeds, and how
\* many records of the body io.Copy writes before it fails (all: no failure).
Outcomes(body) ==
  [metaOk : BOOLEAN, getOk : BOOLEAN, createOk : BOOLEAN, copied : 0..Len(body)]

NoRequests == [meta |-> "none", dl |-> "none"]

\* The download decision taken without the hash comparison: any existing file
\* is downloaded again.
NeedsDownloadAlways(local, remoteBody) == TRUE

\* Lines 83-92: download unless the file exists, can be read and has the
\* remote's hash.
NeedsDownload(local, remoteBody) ==
  IF local.exists /\ local.readable
  THEN BlobSha(local.data) # BlobSha(remoteBody)
  ELSE TRUE

\* One iteration of the loop of updateCsvFiles for a file whose local state is
\* `local` and whose remote content is `remoteBody`, under outcome o. The result
\* is the file afterwards, whether the function returned an error, and the
\* requests made. os.Create truncates the file before io.Copy writes to it.
UpdateStep(local, remoteBody, autoUpdate, o) ==
  IF ~(~local.exists \/ autoUpdate)
  THEN [file |-> local, err |-> FALSE, req |-> NoRequests]
  ELSE IF ~o.metaOk
  THEN [file |-> local, err |-> TRUE, req |-> [meta |-> "failed", dl |-> "none"]]
  ELSE IF ~NeedsDownload(local, remoteBody)
  THEN [file |-> local, err |-> FALSE, req |-> [meta |-> "ok", dl |-> "none"]]
  ELSE IF ~o.getOk
  THEN [file |-> local, err |-> TRUE, req |-> [meta |-> "ok", dl |-> "failed"]]
  ELSE IF ~o.createOk
  THEN [file |-> local, err |-> TRUE, req |-> [meta |-> "ok", dl |-> "ok"]]
  ELSE [file |-> [exists |-> TRUE,
                  readable |-> IF local.exists THEN local.readable ELSE TRUE,
                  data |-> SubSeq(remoteBody, 1, o.copied)],
        err |-> o.copied < Len(remoteBody),
        req |-> [meta |-> "ok", dl |-> "ok"]]

\* ---------------------------------------------------------------- addresses
\* The text of an address is a sequence of tokens: a number (a decimal octet or
\* a hexadecimal group, by its value), ".", ":", "::", or a token "junk" that
\* stands for any other text.
Num(n) == [k |-> "n", v |-> n]
Dot == [k |-> ".", v |-> 0]
Colon == [k |-> ":", v |-> 0]
DColon == [k |-> "::", v |-> 0]
Junk == [k |-> "junk", v |-> 0]

IsDotted(ts) ==
  /\ Len(ts) = 7
  /\ \A i \in {1, 3, 5, 7} : ts[i].k = "n" /\ ts[i].v \in 0..255
  /\ \A i \in {2, 4, 6} : ts[i].k = "."

Octets(ts) == <<ts[1].v, ts[3].v, ts[5].v, ts[7].v>>

Zeros(n) == [i \in 1..n |-> 0]

\* The end of the IPv6 parse: an address shorter than 16 bytes needs a "::",
\* which expands to the missing zeros; a full one must not hold a "::".
FinishV6(bytes, ell) ==
  IF Len(bytes) < 16
  THEN IF ell < 0 THEN None
       ELSE Some(SubSeq(bytes, 1, ell) \o Zeros(16 - Len(bytes))
                   \o SubSeq(bytes, ell + 1, Len(bytes)))
  ELSE IF ell >= 0 THEN None ELSE Some(bytes)

\* The group loop of the IPv6 parse, at a position where a group must start;
\* `bytes` are the bytes so far and `ell` the position of the "::" or -1.
RECURSIVE V6Loop(_, _, _)
V6Loop(ts, bytes, ell) ==
  IF ts = <<>> THEN None
  ELSE IF IsDotted(ts)
  THEN IF Len(bytes) + 4 > 16 THEN None ELSE FinishV6(bytes \o Octets(ts), ell)
  ELSE IF ts[1].k # "n" \/ ts[1].v \notin 0..65535 \/ Len(bytes) + 2 > 16 THEN None
  ELSE LET bytes2 == bytes \o <<ts[1].v \div 256, ts[1].v % 256>>
           rest == Tail(ts)
       IN  IF rest = <<>> THEN FinishV6(bytes2, ell)
           ELSE IF rest[1].k = ":"
           THEN IF Len(rest) = 1 THEN None ELSE V6Loop(Tail(rest), bytes2, ell)
           ELSE IF rest[1].k = "::"
           THEN IF ell >= 0 THEN None
                ELSE IF Len(rest) = 1 THEN FinishV6(bytes2, Len(bytes2))
                ELSE V6Loop(Tail(rest), bytes2, Len(bytes2))
           ELSE None

ParseIPv6(ts) ==
  IF ts = <<>> THEN None
  ELSE IF ts[1].k = "::"
  THEN IF Len(ts) = 1 THEN Some(Zeros(16)) ELSE V6Loop(Tail(ts), <<>>, 0)
  ELSE V6Loop(ts, <<>>, -1)

\* net.IPv4(a, b, c, d): the 16-byte form of an IPv4 address.
V4InV6(o) == Zeros(10) \o <<255, 255>> \o o

\* net.ParseIP: the 16-byte address of a text, None (nil) when it is none. The
\* first separator decides the family that is parsed.
ParseIP(ts) ==
  LET seps == {i \in DOMAIN ts : ts[i].k \in {".", ":", "::"}}
      first == CHOOSE i \in seps : \A j \in seps : i <= j
  IN  IF seps = {} THEN None
      ELSE IF ts[first].k = "."
      THEN IF IsDotted(ts) THEN Some(V4InV6(Octets(ts))) ELSE None
      ELSE ParseIPv6(ts)

\* net.IP.To4 of a 16-byte address: its last four bytes when it is an IPv4
\* address in 16-byte form, else None (nil).
To4(ip) ==
  IF SubSeq(ip, 1, 12) = Zeros(10) \o <<255, 255>> THEN Some(SubSeq(ip, 13, 16)) ELSE None

\* validator tags "required,ip4_addr" and "required,ip6_addr": the text is not
\* empty, net.ParseIP accepts it and To4 gives its family; net.ResolveIPAddr of
\* an address literal of that family then succeeds.
IsIP4Addr(raw) == raw # <<>> /\ ParseIP(raw) # None /\ To4(ParseIP(raw)[1]) # None
IsIP6Addr(raw) == raw # <<>> /\ ParseIP(raw) # None /\ To4(ParseIP(raw)[1]) = None

\* A classification by the look of the text: dotted quad or anything with ":".
parseIpAddressByText(rawIpAddr) ==
  IF IsDotted(rawIpAddr) THEN Some([IpAddr |-> Some(rawIpAddr), IpV6 |-> FALSE])
  ELSE IF ParseIP(rawIpAddr) # None THEN Some([IpAddr |-> Some(rawIpAddr), IpV6 |-> TRUE])
  ELSE None

\* parseIpAddress: a pointer to IpAddress, or None (nil).
parseIpAddress(rawIpAddr) ==
  IF IsIP4Addr(rawIpAddr) THEN Some([IpAddr |-> Some(rawIpAddr), IpV6 |-> FALSE])
  ELSE IF IsIP6Addr(rawIpAddr) THEN Some([IpAddr |-> Some(rawIpAddr), IpV6 |-> TRUE])
  ELSE None

\* ---------------------------------------------------------------- GET /getIpInfo
\* ApiResponse as it is serialised, with the HTTP status.
MissResponse == [Status |-> 200, Ok |-> FALSE, Country |-> None, IpAddr |-> None, IpV6 |-> FALSE]
HitResponse(country, ipAddr) ==
  [Status |-> 200, Ok |-> TRUE, Country |-> Some(country), IpAddr |-> ipAddr.IpAddr,
   IpV6 |-> ipAddr.IpV6]
\* gin.Recovery answers a panic of the handler with status 500.
FaultResponse == [Status |-> 500, Ok |-> FALSE, Country |-> None, IpAddr |-> None, IpV6 |-> FALSE]

\* The miss of a parsed address answered with the address echoed.
MissForEcho(ipAddr) ==
  [Status |-> 200, Ok |-> FALSE, Country |-> None, IpAddr |-> ipAddr.IpAddr, IpV6 |-> ipAddr.IpV6]

\* Line 225: the answer when the address parsed but the range test failed.
MissFor(ipAddr) == MissResponse

\* Lines 207-213: the query integer of a parsed address.
IpNum(addr) ==
  IF To4(addr) # None
  THEN SetUint64(BigEndianUint32(To4(addr)[1]))
  ELSE SetBytes(addr)

\* The search predicate with >= : the first range that starts at or above.
SearchPredGe(arr, ipNum, i) == Cmp(arr[i + 1].start, ipNum) >= 0

\* The predicate given to sort.Search, on the 0-based index i.
SearchPred(arr, ipNum, i) == Cmp(arr[i + 1].start, ipNum) > 0

\* sort.Search(n, f): the binary search loop on [i, j).
RECURSIVE SearchLoop(_, _, _, _)
SearchLoop(arr, ipNum, i, j) ==
  IF i < j
  THEN LET h == (i + j) \div 2
       IN  IF ~SearchPred(arr, ipNum, h)
           THEN SearchLoop(arr, ipNum, h + 1, j)
           ELSE SearchLoop(arr, ipNum, i, h)
  ELSE i

Search(arr, ipNum) == SearchLoop(arr, ipNum, 0, Len(arr))

\* arr[i] on the 0-based index i; None stands for the index-out-of-range panic.
Elem(arr, i) == IF i \in 0..(Len(arr) - 1) THEN Some(arr[i + 1]) ELSE None

\* The range test without the test of the sign.
InRangeNoSign(r, ipNum) == Cmp(r.end, ipNum) >= 0

\* Line 219, after idx > 0: the range test of the candidate.
InRange(r, ipNum) == Cmp(r.end, ipNum) >= 0 /\ Sign(ipNum) # 0

\* The handler: the response, with the parsed address and the query integer it
\* used (None where it had none).
Handler(arr, raw) ==
  LET ipAddr == parseIpAddress(raw)
      addr == ParseIP(ipAddr[1].IpAddr[1])
      ipNum == IpNum(addr[1])
      idx == Search(arr, ipNum)
      cand == Elem(arr, idx - 1)
  IN  IF ipAddr # None /\ ipAddr[1].IpAddr # None
      THEN IF addr # None
           THEN [parsed |-> ipAddr, ipNum |-> Some(ipNum),
                 resp |-> IF idx > 0
                          THEN IF cand = None THEN FaultResponse
                               ELSE IF InRange(cand[1], ipNum)
                               THEN HitResponse(cand[1].country, ipAddr[1])
                               ELSE MissFor(ipAddr[1])
                          ELSE MissFor(ipAddr[1])]
           ELSE [parsed |-> ipAddr, ipNum |-> None, resp |-> MissResponse]
      ELSE [parsed |-> ipAddr, ipNum |-> None, resp |-> MissResponse]

\* ---------------------------------------------------------------- inputs
\* The characters of a decimal number given by its digits.
Txt(ds) == [i \in DOMAIN ds |-> DigitChars[ds[i] + 1]]

\* Records a local IPv4 data file is drawn from: ranges 0-9, 10-19 and 10-15
\* (a repeated start), 300-400, a record with a bad start, one with a bad end,
\* and a record of two fields.
Pool ==
  { <<Txt(<<0>>), Txt(<<9>>), <<"A">>>>,
    <<Txt(<<1, 0>>), Txt(<<1, 9>>), <<"B">>>>,
    <<Txt(<<1, 0>>), Txt(<<1, 5>>), <<"C">>>>,
    <<Txt(<<3, 0, 0>>), Txt(<<4, 0, 0>>), <<"F">>>>,
    <<<<"x">>, Txt(<<5>>), <<"D">>>>,
    <<Txt(<<3, 0>>), <<>>, <<"E">>>>,
    <<Txt(<<5, 0>>), Txt(<<5, 9>>)>> }

RECURSIVE SeqsUpTo(_, _)
SeqsUpTo(S, n) ==
  IF n = 0 THEN {<<>>}
  ELSE LET shorter == SeqsUpTo(S, n - 1)
       IN  shorter \cup {Append(q, x) : q \in shorter, x \in S}

\* The remote IPv4 file: 1.0.0.0-1.0.0.255 AU, 1.0.1.0-1.0.1.255 CN.
RemoteV4 ==
  << <<Txt(<<1, 6, 7, 7, 7, 2, 1, 6>>), Txt(<<1, 6, 7, 7, 7, 4, 7, 1>>), <<"A", "U">>>>,
     <<Txt(<<1, 6, 7, 7, 7, 4, 7, 2>>), Txt(<<1, 6, 7, 7, 7, 7, 2, 7>>), <<"C", "N">>>> >>

\* The remote IPv6 file: ::1:0:0-::1:0:ff DE, ::2:0:0-::2:0:ff FR.
RemoteV6 ==
  << <<Txt(<<4, 2, 9, 4, 9, 6, 7, 2, 9, 6>>), Txt(<<4, 2, 9, 4, 9, 6, 7, 5, 5, 1>>), <<"D", "E">>>>,
     <<Txt(<<8, 5, 8, 9, 9, 3, 4, 5, 9, 2>>), Txt(<<8, 5, 8, 9, 9, 3, 4, 8, 4, 7>>), <<"F", "R">>>> >>

\* An older local copy of each file.
OldV4 == << <<Txt(<<0>>), Txt(<<9>>), <<"A">>>> >>
OldV6 == << <<Txt(<<4, 2, 9, 4, 9, 6, 7, 2, 9, 6>>), Txt(<<4, 2, 9, 4, 9, 6, 7, 5, 5, 1>>), <<"D", "E">>>> >>

remoteFiles == <<RemoteV4, RemoteV6>>
oldFiles == <<OldV4, OldV6>>

\* Values of the environment variable AUTO_UPDATE: unset, "true", " TRUE ", "false".
EnvTexts ==
  { <<>>, <<"t", "r", "u", "e">>, <<" ", "T", "R", "U", "E", " ">>,
    <<"f", "a", "l", "s", "e">> }

V4(a, b, c, d) == <<Num(a), Dot, Num(b), Dot, Num(c), Dot, Num(d)>>

\* Texts of the addr query parameter: "", "junk", "2001:db8:" (truncated),
\* 0.0.0.0, ::, 0.0.0.9, 0.0.0.10, 0.0.0.20, 0.0.1.44 (300), 1.0.0.255,
\* ::ffff:0.0.0.9, ::1:0:ff.
Addrs ==
  { <<>>, <<Junk>>, <<Num(8193), Colon, Num(3512), Colon>>,
    V4(0, 0, 0, 0), <<DColon>>,
    V4(0, 0, 0, 9), V4(0, 0, 0, 10), V4(0, 0, 0, 20), V4(0, 0, 1, 44), V4(1, 0, 0, 255),
    <<DColon, Num(65535), Colon>> \o V4(0, 0, 0, 9),
    <<DColon, Num(1), Colon, Num(0), Colon, Num(255)>> }

Clients == {"c1", "c2"}

\* ---------------------------------------------------------------- state
VARIABLES
  env,      \* the text of AUTO_UPDATE
  disk,     \* the data files in dataDir, by index in files
  remote,   \* the content of the files in the remote repository
  pc,       \* where main is: "start", "update", "load", "serve"; "fatal" after
            \* log.Fatalf, "panic" after a panic of loadCsv
  fi,       \* the index in files of the iteration updateCsvFiles is at
  net,      \* the requests updateCsvFiles has made, by file
  arr,      \* the index: main's arr
  clients   \* the requests in progress and the last response, by client

vars == <<env, disk, remote, pc, fi, net, arr, clients>>

Idle == [st |-> "idle", raw |-> <<>>, out |-> None]

Init ==
  /\ remote = remoteFiles
  /\ pc = "start"
  /\ fi = 1
  /\ net = [f \in FileIds |-> NoRequests]
  /\ arr = <<>>
  /\ clients = [c \in Clients |-> Idle]
  /\ \/ /\ env \in EnvTexts
        /\ \E k \in [FileIds -> {"absent", "unreadable", "old", "current"}] :
             disk = [f \in FileIds |->
                       CASE k[f] = "absent" -> Absent
                         [] k[f] = "unreadable" -> Unreadable
                         [] k[f] = "old" -> Stored(oldFiles[f])
                         [] OTHER -> Stored(remoteFiles[f])]
     \/ /\ env = <<>>
        /\ \E data \in SeqsUpTo(Pool, MaxRecords) :
             disk = <<Stored(data), Stored(OldV6)>>

\* main, line 51: os.MkdirAll(dataDir), which may fail.
MkdirAll ==
  /\ pc = "start"
  /\ \E ok \in BOOLEAN : pc' = IF ok THEN "update" ELSE "fatal"
  /\ UNCHANGED <<env, disk, remote, fi, net, arr, clients>>

\* One iteration of the loop of updateCsvFiles (lines 55-114), and the return
\* of the function: an error makes main call log.Fatalf.
UpdateFile ==
  /\ pc = "update"
  /\ \E o \in Outcomes(remote[fi]) :
       LET r == UpdateStep(disk[fi], remote[fi], AutoUpdate(env), o)
       IN  /\ disk' = [disk EXCEPT ![fi] = r.file]
           /\ net' = [net EXCEPT ![fi] = r.req]
           /\ pc' = IF r.err THEN "fatal" ELSE IF fi = Len(files) THEN "load" ELSE "update"
           /\ fi' = IF ~r.err /\ fi < Len(files) THEN fi + 1 ELSE fi
  /\ UNCHANGED <<env, remote, arr, clients>>

\* main, line 191: arr := loadCsv(), the read of all files and the sort.
LoadCsv ==
  /\ pc = "load"
  /\ LET r == LoadRanges(disk)
     IN  IF r.panicked
         THEN pc' = "panic" /\ arr' = arr
         ELSE pc' = "serve" /\ arr' \in SortOutcomes(r.ranges)
  /\ UNCHANGED <<env, disk, remote, fi, net, clients>>

\* A server that accepts requests before main has reached r.Run.
ReceiveAnytime(c, raw) ==
  /\ clients[c].st # "recv"
  /\ clients' = [clients EXCEPT ![c] = [st |-> "recv", raw |-> raw, out |-> None]]
  /\ UNCHANGED <<env, disk, remote, pc, fi, net, arr>>

\* r.Run: a request for /getIpInfo?addr=raw arrives from client c.
Receive(c, raw) ==
  /\ pc = "serve"
  /\ clients[c].st # "recv"
  /\ clients' = [clients EXCEPT ![c] = [st |-> "recv", raw |-> raw, out |-> None]]
  /\ UNCHANGED <<env, disk, remote, pc, fi, net, arr>>

\* The handler runs for the request of client c and answers it.
Respond(c) ==
  /\ pc = "serve"
  /\ clients[c].st = "recv"
  /\ clients' = [clients EXCEPT ![c] =
                   [st |-> "done", raw |-> @.raw, out |-> Some(Handler(arr, @.raw))]]
  /\ UNCHANGED <<env, disk, remote, pc, fi, net, arr>>

Next ==
  \/ MkdirAll
  \/ UpdateFile
  \/ LoadCsv
  \/ \E c \in Clients, raw \in Addrs : Receive(c, raw)
  \/ \E c \in Clients : Respond(c)

Spec == Init /\ [][Next]_vars

\* ---------------------------------------------------------------- properties
Done(c) == clients[c].st = "done"
Out(c) == clients[c].out[1]

Leq(x, y) == Cmp(x, y) <= 0
Contains(r, q) == Leq(r.start, q) /\ Leq(q, r.end)

\* An index of ranges with start <= end that is sorted ascending by start and
\* pairwise non-overlapping.
WellFormedIndex(a) ==
  /\ \A i \in DOMAIN a : Leq(a[i].start, a[i].end)
  /\ \A i, j \in DOMAIN a : i < j => Cmp(a[i].end, a[j].start) < 0

\* The value of a big-endian byte sequence, by Horner's rule.
RECURSIVE Horner(_, _)
Horner(bs, acc) ==
  IF bs = <<>> THEN acc ELSE Horner(Tail(bs), MulAdd(acc, 256, Head(bs)))
ValueOf(bs) == [neg |-> FALSE, abs |-> Horner(bs, <<>>)]

BagOf(s) == [x \in {s[i] : i \in DOMAIN s} |-> Cardinality({i \in DOMAIN s : s[i] = x})]

\* The ranges read from the files on disk, in the order loadCsv appends them.
Parsed == LoadRanges(disk).ranges

WithStart(s, st) == SelectSeq(s, LAMBDA r : Cmp(r.start, st) = 0)
Starts(s) == {s[i].start : i \in DOMAIN s}
Reverse(s) == [i \in DOMAIN s |-> s[Len(s) + 1 - i]]

\* C1: on an index that is sorted by start and non-overlapping, a query with a
\* non-zero integer q is answered ok=true with country c exactly when a linear
\* scan finds a range with start <= q <= end, and c is that range's country;
\* otherwise it is answered ok=false.
C1_ResolveAgreesWithLinearScan ==
  \A c \in Clients :
    (Done(c) /\ Out(c).ipNum # None /\ WellFormedIndex(arr)) =>
      LET q == Out(c).ipNum[1]
          hits == {i \in DOMAIN arr : Contains(arr[i], q)}
          resp == Out(c).resp
      IN  Sign(q) # 0 =>
            /\ resp.Status = 200
            /\ resp.Ok <=> hits # {}
            /\ resp.Ok => \E i \in hits : resp.Country = Some(arr[i].country)
            /\ ~resp.Ok => resp.Country = None

\* C1 witness: on a well-formed index of three or more ranges one query is
\* answered from the end boundary of a range and another, in a gap between two
\* ranges, is not found.
C1_Witness ==
  /\ pc = "serve" /\ WellFormedIndex(arr) /\ Len(arr) >= 3
  /\ \E c \in Clients : Done(c) /\ Out(c).resp.Ok
       /\ \E i \in DOMAIN arr : Cmp(arr[i].end, Out(c).ipNum[1]) = 0
  /\ \E c \in Clients : Done(c) /\ Out(c).ipNum # None /\ ~Out(c).resp.Ok
       /\ \E i \in DOMAIN arr : i < Len(arr)
            /\ Cmp(arr[i].end, Out(c).ipNum[1]) < 0
            /\ Cmp(Out(c).ipNum[1], arr[i + 1].start) < 0

\* The addresses whose integer is zero: 0.0.0.0 and ::.
IsZeroAddress(raw) ==
  ParseIP(raw) # None /\ ParseIP(raw)[1] \in {Zeros(16), V4InV6(Zeros(4))}

\* C2: a query for 0.0.0.0 or :: is answered ok=false whatever the index holds.
C2_ZeroAddressNeverResolves ==
  \A c \in Clients : (Done(c) /\ IsZeroAddress(clients[c].raw)) => ~Out(c).resp.Ok

\* C2 witness: 0.0.0.0 was answered against an index whose first range starts
\* at 0 and ends above it.
C2_Witness ==
  /\ arr # <<>> /\ Sign(arr[1].start) = 0 /\ Sign(arr[1].end) = 1
  /\ \E c \in Clients : Done(c) /\ clients[c].raw = V4(0, 0, 0, 0)

\* C3: a text that is no IPv4 or IPv6 literal is answered, without a fault,
\* ok=false with no country and no address, and that answer equals the answer
\* to a well-formed address that lies in no range.
C3_MalformedAnswersLikeMiss ==
  \A c \in Clients :
    (Done(c) /\ ParseIP(clients[c].raw) = None) =>
      /\ Out(c).resp = [Status |-> 200, Ok |-> FALSE, Country |-> None,
                        IpAddr |-> None, IpV6 |-> FALSE]
      /\ \A d \in Clients :
           (Done(d) /\ ParseIP(clients[d].raw) # None /\ ~Out(d).resp.Ok)
             => Out(d).resp = Out(c).resp

\* C3 witness: a truncated IPv6 text and a well-formed non-zero address in no
\* range have both been answered.
C3_Witness ==
  /\ \E c \in Clients : Done(c) /\ clients[c].raw = <<Num(8193), Colon, Num(3512), Colon>>
  /\ \E d \in Clients : Done(d) /\ Out(d).ipNum # None /\ Sign(Out(d).ipNum[1]) # 0
       /\ ~Out(d).resp.Ok

\* C4: the query integer is the big-endian value of the address in the family
\* parseIpAddress reports: of its four IPv4 octets when ip_v6 is false, of all
\* 16 bytes when ip_v6 is true.
C4_QueryIntegerMatchesFamily ==
  \A c \in Clients :
    (Done(c) /\ Out(c).parsed # None) =>
      LET ip == ParseIP(clients[c].raw)[1]
      IN  Out(c).ipNum =
            Some(IF Out(c).parsed[1].IpV6 THEN ValueOf(ip) ELSE ValueOf(SubSeq(ip, 13, 16)))

\* C4 witness: an address written ::ffff:a.b.c.d was taken as IPv4, and an
\* address taken as IPv6 gave an integer of more than 32 bits.
C4_Witness ==
  /\ \E c \in Clients : Done(c) /\ Out(c).parsed # None /\ ~Out(c).parsed[1].IpV6
       /\ clients[c].raw[1] = DColon
  /\ \E d \in Clients : Done(d) /\ Out(d).parsed # None /\ Out(d).parsed[1].IpV6
       /\ Len(Out(d).ipNum[1].abs) > 4

\* The ranges C5 expects of a file: one for each record whose first two fields
\* parse as base-10 integers.
ClaimedRanges(file) ==
  LET ok(rec) == Len(rec) >= 2 /\ SetString(rec[1]) # None /\ SetString(rec[2]) # None
      good == SelectSeq(file.data, ok)
  IN  IF ~file.readable THEN <<>>
      ELSE [i \in DOMAIN good |->
              [start |-> SetString(good[i][1])[1], end |-> SetString(good[i][2])[1],
               country |-> IF Len(good[i]) >= 3 THEN good[i][3] ELSE <<>>]]

\* C5: loading yields exactly one range for each record whose first two fields
\* parse as base-10 integers and none for the others, without a fault, and a
\* bad record costs no other record of any source.
C5_EveryParsableRecordLoaded ==
  /\ pc # "panic"
  /\ pc = "serve" => BagOf(arr) = BagOf(ClaimedRanges(disk[1]) \o ClaimedRanges(disk[2]))

\* C5, for files all of whose records have three fields: the claim holds.
C5_HoldsForThreeFieldRecords ==
  (\A f \in FileIds : \A i \in DOMAIN disk[f].data : Len(disk[f].data[i]) = 3) =>
    C5_EveryParsableRecordLoaded

\* C6: no query is received or answered before loadCsv has returned the whole
\* sorted index; while the server runs the index never changes; every answer
\* is the answer of the whole index; and the same address gets the same answer.
C6_IndexBuiltOnceThenReadOnly ==
  /\ [](\A c \in Clients : clients[c].st # "idle" => pc = "serve")
  /\ [][(pc # "serve" /\ pc' = "serve") => (pc = "load" /\ arr' \in SortOutcomes(Parsed))]_vars
  /\ [][pc = "serve" => (pc' = "serve" /\ arr' = arr)]_vars
  /\ [](\A c, d \in Clients :
          (Done(c) /\ Done(d) /\ clients[c].raw = clients[d].raw) => Out(c) = Out(d))

\* C6 witness: both clients have been answered for the same address, found in
\* the index, while the other's request was in progress or answered.
C6_Witness ==
  /\ pc = "serve"
  /\ Done("c1") /\ Done("c2")
  /\ clients["c1"].raw = clients["c2"].raw
  /\ Out("c1").resp.Ok

\* What C7 says of the iteration of updateCsvFiles for file fi, given whether
\* AUTO_UPDATE counts as set: the metadata request is made iff the file is
\* missing or auto is set; a download is requested only if the file is missing,
\* or auto is set and the file cannot be read or its hash differs from the
\* remote's, and then it is requested unless the metadata request failed; the
\* file changes only by a download; an existing file is left alone, with no
\* request, when auto is not set.
UpdateDecision(auto) ==
  LET local == disk[fi]
      need == \/ ~local.exists
              \/ auto /\ (~local.readable \/ BlobSha(local.data) # BlobSha(remote[fi]))
      req == net'[fi]
  IN  /\ req.meta # "none" <=> (~local.exists \/ auto)
      /\ req.dl # "none" => need
      /\ (need /\ req.meta = "ok") => req.dl # "none"
      /\ disk'[fi] # local => req.dl = "ok"
      /\ (local.exists /\ ~auto) => (disk'[fi] = local /\ req = NoRequests)

C8_IndexSortedPermutationOfParsed ==
  [][(pc = "load" /\ pc' = "serve") =>
       /\ \A i \in 1..(Len(arr') - 1) : Leq(arr'[i].start, arr'[i + 1].start)
       /\ BagOf(arr') = BagOf(Parsed)
       /\ Cardinality(Starts(Parsed)) = Len(Parsed) =>
            /\ SortOutcomes(Reverse(Parsed)) = {arr'}
            /\ SortOutcomes(ReadSource(disk[2]).ranges \o ReadSource(disk[1]).ranges)
                 = {arr'}]_vars

\* C8 witness: an index of three or more ranges with distinct starts was built
\* from ranges that were not read in ascending order.
C8_Witness ==
  /\ pc = "serve" /\ Len(arr) >= 3
  /\ Cardinality(Starts(Parsed)) = Len(Parsed)
  /\ Parsed # arr

\* C9 as stated: in the index loadCsv returns, ranges with equal start keep the order in which they were read.
C9_TiesKeepInputOrder ==
  [][(pc = "load" /\ pc' = "serve") =>
       \A st \in Starts(Parsed) : WithStart(arr', st) = WithStart(Parsed, st)]_vars

\* C9 amended: in the index loadCsv returns, ranges with equal start are all kept and stand next to each
\* other in the index, in an order that is not determined.
C9_TiesKeptAdjacentInSomeOrder ==
  [][(pc = "load" /\ pc' = "serve") =>
       \A st \in Starts(Parsed) :
         /\ BagOf(WithStart(arr', st)) = BagOf(WithStart(Parsed, st))
         /\ \A i, j, k \in DOMAIN arr' :
              (i < j /\ j < k /\ Cmp(arr'[i].start, st) = 0 /\ Cmp(arr'[k].start, st) = 0)
                => Cmp(arr'[j].start, st) = 0]_vars

\* C9 witness: two different ranges with the same start stand in the index in
\* the reverse of the order in which they were read.
C9_Witness ==
  /\ pc = "serve"
  /\ \E st \in Starts(Parsed) :
       /\ Len(WithStart(Parsed, st)) = 2
       /\ WithStart(arr, st) = Reverse(WithStart(Parsed, st))
       /\ WithStart(arr, st) # WithStart(Parsed, st)

\* C10: when updateCsvFiles fails on a file that existed locally (and could be
\* read, so that a later startup loads it), that file still has its old content.
C10_FailedUpdateKeepsOldFile ==
  [][(pc = "update" /\ pc' = "fatal" /\ disk[fi].exists /\ disk[fi].readable)
       => disk'[fi] = disk[fi]]_vars
====
